---- MODULE Spec2Model ----
(***************************************************************************)
(* CTFTimeDiscordBot: send_updates (fetch, dedup cache, publish) and the   *)
(* chunked publisher CtfTimeClient.post_announcement, with the two entry   *)
(* points (the command line and the HTTP-triggered function).              *)
(*                                                                         *)
(* Strings that the code compares (the cache, the joined ids) are          *)
(* sequences of one-character strings.  An event (CTF) is its id and the   *)
(* serialized length of the card built from it; a card (embed) keeps both. *)
(* The outside world (the API, the chat platform) answers by               *)
(* nondeterministic choice.                                                *)
(***************************************************************************)
EXTENDS Integers, Sequences, FiniteSets, TLC

VARIABLES
    pc,          \* position of the single thread of control
    entry,       \* "cli" (__main__) or "http" (ctftime_discord_events)
    cache_path,  \* None or Some(path)
    cacheFile,   \* content of the file at cache_path
    cache,       \* send_updates: local cache
    ctfs,        \* send_updates: result of get_ctfs
    ids,         \* send_updates: local ids
    client,      \* Unset, "created" (CtfTimeClient constructed), "running" (client.run)
    content,     \* CtfTimeClient.content
    embeds,      \* CtfTimeClient.embeds, the pending list
    channel,     \* post_announcement: local channel
    first,       \* post_announcement: local first
    sent,        \* the calls of channel.send made so far, in order
    closed,      \* self.close() has been called
    bg_task,     \* outcome of post_announcement_task: Unset, "True" or "False"
    res,         \* value returned by send_updates: Unset, "True" or "False"
    reply        \* value returned by ctftime_discord_events: Unset, "ok" or "error"

vars == <<pc, entry, cache_path, cacheFile, cache, ctfs, ids, client, content,
          embeds, channel, first, sent, closed, bg_task, res, reply>>

\* an optional value: None, or Some(x)
None == <<>>
Some(x) == <<x>>
\* a value not assigned yet
Unset == "Unset"

----------------------------------------------------------------------------
(* Bounds of the model *)

\* longest batch whose ids vary freely
MaxCtfs == 2
\* longest batch at all (ids 1..n in order)
MaxLong == 11
\* cards of a long batch that are not of the common length
MaxBig == 1
\* calls of channel.send the model follows in one run
MaxSends == 5

\* event ids the API may return
Cids == {1, 2, 12}
\* serialized lengths of a card: a tenth of the budget, more than half of it, over it
Sizes == {600, 3500, 6001}
\* the length of the cards of a long batch, but for at most MaxBig of them
CommonLen == CHOOSE n \in Sizes : \A m \in Sizes : n <= m

----------------------------------------------------------------------------
(* Program constants *)

MaxChunkLen == 6000
MaxChunkEmbeds == 10
HttpDays == 7
CliDays == 10

----------------------------------------------------------------------------
(* Strings *)

Digits == <<"0", "1", "2", "3", "4", "5", "6", "7", "8", "9">>
Whitespace == {" ", "\n"}

\* str(n) for a natural number
RECURSIVE Str(_)
Str(n) == IF n < 10 THEN <<Digits[n + 1]>>
          ELSE Str(n \div 10) \o <<Digits[(n % 10) + 1]>>

\* sep.join(parts)
RECURSIVE Join(_, _)
Join(sep, parts) ==
    IF Len(parts) = 0 THEN <<>>
    ELSE IF Len(parts) = 1 THEN parts[1]
    ELSE parts[1] \o sep \o Join(sep, Tail(parts))

RECURSIVE LStrip(_)
LStrip(s) == IF Len(s) > 0 /\ s[1] \in Whitespace THEN LStrip(Tail(s)) ELSE s

RECURSIVE RStrip(_)
RStrip(s) == IF Len(s) > 0 /\ s[Len(s)] \in Whitespace
             THEN RStrip(SubSeq(s, 1, Len(s) - 1)) ELSE s

\* s.strip()
Strip(s) == RStrip(LStrip(s))

----------------------------------------------------------------------------
(* What the API may answer *)

\* sequences of distinct ids, at most n long
RECURSIVE IdSeqs(_)
IdSeqs(n) ==
    IF n = 0 THEN {<<>>}
    ELSE IdSeqs(n - 1) \cup
         {Append(q, c) : <<q, c>> \in
            {x \in IdSeqs(n - 1) \X Cids :
                /\ Len(x[1]) = n - 1
                /\ \A i \in 1..Len(x[1]) : x[1][i] # x[2]}}

\* the events of a short batch: any distinct ids, any lengths
SmallBatches ==
    UNION {{[i \in 1..Len(q) |-> [cid |-> q[i], len |-> f[i]]] :
               f \in [1..Len(q) -> Sizes]} : q \in IdSeqs(MaxCtfs)}

\* the events of a long batch: ids 1..n, the common length but for a few
LongBatches ==
    UNION {UNION {{[i \in 1..n |-> [cid |-> i,
                                    len |-> IF i \in B THEN f[i] ELSE CommonLen]] :
                      f \in [B -> Sizes \ {CommonLen}]} :
                  B \in {X \in SUBSET (1..n) : Cardinality(X) <= MaxBig}} :
           n \in (MaxCtfs + 1)..MaxLong}

Batches == SmallBatches \cup LongBatches

\* what the cache file may hold when the program starts: nothing, or the ids
\* of an earlier batch, with or without a final newline
CacheContents ==
    LET joined == {Join(<<",">>, [i \in 1..Len(q) |-> Str(q[i])]) : q \in IdSeqs(MaxCtfs)}
    IN joined \cup {j \o <<"\n">> : j \in joined}

----------------------------------------------------------------------------
(* Pure parts of the program *)

\* CTF.generate_embed: the card of an event
generate_embed(ctf) == [of |-> ctf.cid, len |-> ctf.len]

\* len(embed)
EmbedLen(embed) == embed.len

\* ",".join([str(ctf.cid) for ctf in ctfs])
JoinIds(cs) == Join(<<",">>, [i \in 1..Len(cs) |-> Str(cs[i].cid)])

\* the comparison made on the ids whatever their order: the same characters,
\* each as many times
CacheMatchesUnordered(c, i) ==
    \A ch \in {c[k] : k \in 1..Len(c)} \cup {i[k] : k \in 1..Len(i)} :
        Cardinality({k \in 1..Len(c) : c[k] = ch}) =
        Cardinality({k \in 1..Len(i) : i[k] = ch})

\* if cache == ids
CacheMatches(c, i) == c = i

\* the budget tested on the batch as it is, before the next card is counted
OverBudgetBeforeAdding(chunk_len, next_embed_len) == chunk_len > MaxChunkLen

\* if chunk_len + next_embed_len > 6000
OverBudget(chunk_len, next_embed_len) == chunk_len + next_embed_len > MaxChunkLen

\* if len(embed_chunk) >= 10
ChunkFull(embed_chunk) == Len(embed_chunk) >= MaxChunkEmbeds

\* the card that did not fit is not put back
PushBackDropped(popped, next_embed) == popped

\* self.embeds.append(next_embed), after the pop that took it
PushBack(popped, next_embed) == Append(popped, next_embed)

\* the inner loop of post_announcement: one batch taken from the end of the
\* pending list
RECURSIVE FillChunk(_, _, _)
FillChunk(pending, embed_chunk, chunk_len) ==
    IF Len(pending) = 0
    THEN [embeds |-> pending, embed_chunk |-> embed_chunk, chunk_len |-> chunk_len]
    ELSE LET next_embed == pending[Len(pending)]
             popped == SubSeq(pending, 1, Len(pending) - 1)
             next_embed_len == EmbedLen(next_embed)
         IN IF OverBudget(chunk_len, next_embed_len)
            THEN [embeds |-> PushBack(popped, next_embed),
                  embed_chunk |-> embed_chunk, chunk_len |-> chunk_len]
            ELSE IF ChunkFull(Append(embed_chunk, next_embed))
            THEN [embeds |-> popped, embed_chunk |-> Append(embed_chunk, next_embed),
                  chunk_len |-> chunk_len + next_embed_len]
            ELSE FillChunk(popped, Append(embed_chunk, next_embed),
                           chunk_len + next_embed_len)

\* content = self.content if first else None
ChunkContent(f, c) == IF f THEN Some(c) ELSE None

\* f"CTFs during the upcoming {days} days:"
LeadIn(days) == <<"CTFs during the upcoming ", Str(days), " days:">>

\* the answer of channel.send is not tested
SendFailedIgnored(message) == FALSE

\* the cache is left as it was
WriteCacheSkipped(path, file, i) == file

\* only None is taken for a failed fetch, not the empty list
NotCtfsNoneOnly(c) == c = None

\* if not message
SendFailed(message) == message = "none"

\* if cache_path: f.write(ids): the content of the file afterwards
WriteCache(path, file, i) == IF path # None THEN i ELSE file

\* if not ctfs
NotCtfs(c) == IF c = None THEN TRUE ELSE c[1] = <<>>

----------------------------------------------------------------------------
(* The state machine *)

Init ==
    /\ pc = "main"
    /\ entry \in {"cli", "http"}
    /\ cache_path \in IF entry = "cli" THEN {None, Some("cache-file")} ELSE {None}
    /\ cacheFile \in IF cache_path # None THEN CacheContents ELSE {<<>>}
    /\ cache = <<>>
    /\ ctfs = None
    /\ ids = <<>>
    /\ client = Unset
    /\ content = <<>>
    /\ embeds = <<>>
    /\ channel = Unset
    /\ first = FALSE
    /\ sent = <<>>
    /\ closed = FALSE
    /\ bg_task = Unset
    /\ res = Unset
    /\ reply = Unset

\* __main__: the cache file exists from here on (created empty when it was
\* missing); calls send_updates
CliMain ==
    /\ pc = "main" /\ entry = "cli"
    /\ pc' = "read_cache"
    /\ UNCHANGED <<entry, cache_path, cacheFile, cache, ctfs, ids, client, content,
                   embeds, channel, first, sent, closed, bg_task, res, reply>>

\* ctftime_discord_events: calls send_updates with cache_path=None
HttpMain ==
    /\ pc = "main" /\ entry = "http"
    /\ cache_path = None
    /\ pc' = "read_cache"
    /\ UNCHANGED <<entry, cache_path, cacheFile, cache, ctfs, ids, client, content,
                   embeds, channel, first, sent, closed, bg_task, res, reply>>

\* send_updates: cache = ""; with a path, cache = f.read().strip()
ReadCache ==
    /\ pc = "read_cache"
    /\ cache' = IF cache_path # None THEN Strip(cacheFile) ELSE <<>>
    /\ pc' = "get_ctfs"
    /\ UNCHANGED <<entry, cache_path, cacheFile, ctfs, ids, client, content,
                   embeds, channel, first, sent, closed, bg_task, res, reply>>

\* ctfs = get_ctfs(max_ctfs, days): None on a transport error or a non-200
\* answer, otherwise the events in the order of the answer
GetCtfs ==
    /\ pc = "get_ctfs"
    /\ \E r \in {None} \cup {Some(b) : b \in Batches} : ctfs' = r
    /\ pc' = "got_ctfs"
    /\ UNCHANGED <<entry, cache_path, cacheFile, cache, ids, client, content,
                   embeds, channel, first, sent, closed, bg_task, res, reply>>

\* if not ctfs: return False
ReturnNoCtfs ==
    /\ pc = "got_ctfs"
    /\ NotCtfs(ctfs)
    /\ res' = "False"
    /\ pc' = "returned"
    /\ UNCHANGED <<entry, cache_path, cacheFile, cache, ctfs, ids, client, content,
                   embeds, channel, first, sent, closed, bg_task, reply>>

\* embeds = [ctf.generate_embed() for ctf in ctfs]; ids = ",".join(...)
GenerateEmbeds ==
    /\ pc = "got_ctfs"
    /\ ~NotCtfs(ctfs)
    /\ embeds' = [i \in 1..Len(ctfs[1]) |-> generate_embed(ctfs[1][i])]
    /\ ids' = JoinIds(ctfs[1])
    /\ pc' = "check_cache"
    /\ UNCHANGED <<entry, cache_path, cacheFile, cache, ctfs, client, content,
                   channel, first, sent, closed, bg_task, res, reply>>

\* if cache == ids: return False
CacheHit ==
    /\ pc = "check_cache"
    /\ CacheMatches(cache, ids)
    /\ res' = "False"
    /\ pc' = "returned"
    /\ UNCHANGED <<entry, cache_path, cacheFile, cache, ctfs, ids, client, content,
                   embeds, channel, first, sent, closed, bg_task, reply>>

\* otherwise, if cache_path: f.write(ids)
UpdateCache ==
    /\ pc = "check_cache"
    /\ ~CacheMatches(cache, ids)
    /\ cacheFile' = WriteCache(cache_path, cacheFile, ids)
    /\ pc' = "create_client"
    /\ UNCHANGED <<entry, cache_path, cache, ctfs, ids, client, content,
                   embeds, channel, first, sent, closed, bg_task, res, reply>>

\* client = CtfTimeClient(channel_id, content, embeds, intents)
CreateClient ==
    /\ pc = "create_client"
    /\ client' = "created"
    /\ content' = LeadIn(IF entry = "http" THEN HttpDays ELSE CliDays)
    /\ pc' = "run_client"
    /\ UNCHANGED <<entry, cache_path, cacheFile, cache, ctfs, ids,
                   embeds, channel, first, sent, closed, bg_task, res, reply>>

\* client.run(token) starts; setup_hook creates the task post_announcement_task,
\* which suspends in wait_until_ready
RunClient ==
    /\ pc = "run_client"
    /\ client' = "running"
    /\ pc' = "wait_until_ready"
    /\ UNCHANGED <<entry, cache_path, cacheFile, cache, ctfs, ids, content,
                   embeds, channel, first, sent, closed, bg_task, res, reply>>

\* post_announcement: wait_until_ready returns, then channel =
\* self.get_channel(self.channel_id): nothing, a text channel, an announcement
\* (news) text channel, or a channel of another type
GetChannel ==
    /\ pc = "wait_until_ready"
    /\ \E ch \in {"none", "text", "news", "voice"} :
         /\ channel' = ch
         /\ IF ch = "none"
            THEN /\ closed' = TRUE
                 /\ bg_task' = "False"
                 /\ pc' = "task_done"
                 /\ first' = first
            ELSE IF ch = "voice"
            THEN /\ bg_task' = "False"
                 /\ pc' = "task_done"
                 /\ UNCHANGED <<closed, first>>
            ELSE /\ first' = TRUE
                 /\ pc' = "send_loop"
                 /\ UNCHANGED <<closed, bg_task>>
    /\ UNCHANGED <<entry, cache_path, cacheFile, cache, ctfs, ids, client, content,
                   embeds, sent, res, reply>>

\* one round of the send loop: build a batch, channel.send it; the platform
\* answers with a message, with no message, or the call raises
SendChunk ==
    /\ pc = "send_loop"
    /\ Len(embeds) > 0
    /\ Len(sent) < MaxSends
    /\ LET c == FillChunk(embeds, <<>>, 0) IN
       \E message \in {"message", "none", "raise"} :
         /\ embeds' = c.embeds
         /\ sent' = Append(sent, [content |-> ChunkContent(first, content),
                                  embeds |-> c.embed_chunk,
                                  chunk_len |-> c.chunk_len,
                                  message |-> message,
                                  published |-> FALSE])
         /\ IF message = "raise"
            THEN /\ bg_task' = "False"
                 /\ pc' = "task_done"
                 /\ UNCHANGED closed
            ELSE IF SendFailed(message)
            THEN /\ closed' = TRUE
                 /\ bg_task' = "False"
                 /\ pc' = "task_done"
            ELSE /\ pc' = IF channel = "news" THEN "publish" ELSE "send_loop"
                 /\ UNCHANGED <<closed, bg_task>>
    /\ UNCHANGED <<entry, cache_path, cacheFile, cache, ctfs, ids, client, content,
                   channel, first, res, reply>>

\* await message.publish() in a news channel: done, or the call raises
Publish ==
    /\ pc = "publish"
    /\ \E ok \in BOOLEAN :
         IF ok
         THEN /\ sent' = [sent EXCEPT ![Len(sent)].published = TRUE]
              /\ pc' = "send_loop"
              /\ UNCHANGED bg_task
         ELSE /\ bg_task' = "False"
              /\ pc' = "task_done"
              /\ UNCHANGED sent
    /\ UNCHANGED <<entry, cache_path, cacheFile, cache, ctfs, ids, client, content,
                   embeds, channel, first, closed, res, reply>>

\* the send loop is over: await self.close(); return True
FinishPosting ==
    /\ pc = "send_loop"
    /\ Len(embeds) = 0
    /\ closed' = TRUE
    /\ bg_task' = "True"
    /\ pc' = "task_done"
    /\ UNCHANGED <<entry, cache_path, cacheFile, cache, ctfs, ids, client, content,
                   embeds, channel, first, sent, res, reply>>

\* client.run returns once the client is closed; send_updates returns True
RunReturns ==
    /\ pc = "task_done"
    /\ closed
    /\ res' = "True"
    /\ pc' = "returned"
    /\ UNCHANGED <<entry, cache_path, cacheFile, cache, ctfs, ids, client, content,
                   embeds, channel, first, sent, closed, bg_task, reply>>

\* ctftime_discord_events: "ok" if res else "error"
HttpReturn ==
    /\ pc = "returned" /\ entry = "http"
    /\ reply' = IF res = "True" THEN "ok" ELSE "error"
    /\ pc' = "exit"
    /\ UNCHANGED <<entry, cache_path, cacheFile, cache, ctfs, ids, client, content,
                   embeds, channel, first, sent, closed, bg_task, res>>

\* __main__: the value of send_updates is dropped
CliExit ==
    /\ pc = "returned" /\ entry = "cli"
    /\ pc' = "exit"
    /\ UNCHANGED <<entry, cache_path, cacheFile, cache, ctfs, ids, client, content,
                   embeds, channel, first, sent, closed, bg_task, res, reply>>

Next ==
    \/ CliMain
    \/ HttpMain
    \/ ReadCache
    \/ GetCtfs
    \/ ReturnNoCtfs
    \/ GenerateEmbeds
    \/ CacheHit
    \/ UpdateCache
    \/ CreateClient
    \/ RunClient
    \/ GetChannel
    \/ SendChunk
    \/ Publish
    \/ FinishPosting
    \/ RunReturns
    \/ HttpReturn
    \/ CliExit

Spec == Init /\ [][Next]_vars

----------------------------------------------------------------------------
(* Helpers of the properties *)

RECURSIVE SumLen(_)
SumLen(es) == IF Len(es) = 0 THEN 0 ELSE EmbedLen(es[1]) + SumLen(Tail(es))

RECURSIVE ConcatChunks(_)
ConcatChunks(ss) == IF Len(ss) = 0 THEN <<>> ELSE ss[1].embeds \o ConcatChunks(Tail(ss))

Reverse(q) == [i \in 1..Len(q) |-> q[Len(q) + 1 - i]]

\* the cards CtfTimeClient was constructed with
InputCards == [i \in 1..Len(ctfs[1]) |-> [of |-> ctfs[1][i].cid, len |-> ctfs[1][i].len]]

\* the ids of the fetched events
FetchedCids == [i \in 1..Len(ctfs[1]) |-> ctfs[1][i].cid]

TaskEnded == pc \in {"task_done", "returned", "exit"} /\ bg_task # Unset

----------------------------------------------------------------------------
(* The chunked publisher *)

C3_LeadInOnFirstBatchOnly ==
    Len(sent) >= 2 =>
        /\ sent[1].content = Some(content)
        /\ \A k \in 2..Len(sent) : sent[k].content = None

\* C4: when a send returns no message, that batch is the last one sent, it is
\* not promoted, no batch after it exists, the connection is closed and the
\* publish task yields False.
C4_FailedSendAborts ==
    \A k \in 1..Len(sent) :
        sent[k].message = "none" =>
            /\ k = Len(sent)
            /\ ~sent[k].published
            /\ closed
            /\ bg_task = "False"
            /\ pc \in {"task_done", "returned", "exit"}

\* C4 witness: the second batch of a news channel got no message, after a
\* first batch that was sent and promoted; cards are still pending.
C4_Witness ==
    /\ Len(sent) = 2
    /\ sent[1].message = "message" /\ sent[1].published
    /\ sent[2].message = "none"
    /\ channel = "news"
    /\ Len(embeds) > 0
    /\ pc = "exit"

\* C9: every batch sent makes the pending list strictly shorter (so the send
\* loop ends).
C9_PendingShrinksWithEverySend ==
    [][Len(sent') > Len(sent) => Len(embeds') < Len(embeds)]_vars

\* C10: when the send loop completes with every send succeeding, the batches
\* in the order sent, put end to end, are the input cards in reverse order.
C10_SentIsReverseOfInput ==
    bg_task = "True" => ConcatChunks(sent) = Reverse(InputCards)

\* C10 witness: a completed run of three batches, the first of which was
\* closed by the character budget with the card that did not fit sent next.
C10_Witness ==
    /\ bg_task = "True"
    /\ Len(sent) = 3
    /\ Len(sent[1].embeds) < 10
    /\ sent[1].chunk_len + EmbedLen(sent[2].embeds[1]) > 6000

----------------------------------------------------------------------------
(* send_updates and the entry points *)

\* C1: for a non-empty fetched batch, the chat client is created and run if
\* and only if the comma-joined ids, in fetch order, differ from the trimmed
\* content of the cache; when they are equal, send_updates returns False
\* without writing the cache or contacting the chat platform.
C1_State ==
    /\ (cache_path # None /\ pc \in {"get_ctfs", "got_ctfs", "check_cache"})
          => cache = Strip(cacheFile)
    /\ (pc \in {"run_client", "wait_until_ready", "send_loop", "publish",
                "task_done", "returned", "exit"}
        /\ ctfs # None /\ ctfs # Some(<<>>))
          => /\ (client # Unset) <=> (JoinIds(ctfs[1]) # cache)
             /\ (JoinIds(ctfs[1]) = cache)
                   => /\ res = "False"
                      /\ sent = <<>>
                      /\ ~closed
                      /\ bg_task = Unset
                      /\ cache_path # None => Strip(cacheFile) = cache

C1_Step ==
    (pc = "check_cache" /\ JoinIds(ctfs[1]) = cache)
        => /\ cacheFile' = cacheFile
           /\ client' = Unset
           /\ pc' = "returned"

C1_PublishIffIdsDiffer == []C1_State /\ [][C1_Step]_vars

\* C1 witness: the cache holds the fetched ids in another order, and the
\* batch has been posted again.
C1_Witness ==
    /\ ctfs # None /\ ctfs # Some(<<>>)
    /\ \E q \in IdSeqs(MaxCtfs) :
          /\ cache = Join(<<",">>, [i \in 1..Len(q) |-> Str(q[i])])
          /\ {q[i] : i \in 1..Len(q)} = {FetchedCids[i] : i \in 1..Len(FetchedCids)}
          /\ Len(q) = Len(FetchedCids)
          /\ q # FetchedCids
    /\ bg_task = "True"
    /\ Len(sent) > 0

\* The other half of C1, reached as well: the
\* cache held the fetched ids followed by a newline and nothing was posted.
C1_WitnessHit ==
    /\ pc = "exit"
    /\ ctfs # None /\ ctfs # Some(<<>>)
    /\ cacheFile = JoinIds(ctfs[1]) \o <<"\n">>
    /\ client = Unset

\* C5: every failure of the publish task outside the send loop (channel not
\* found, channel not a text channel, fault caught at the task boundary) ends
\* with the connection closed and False; for the two channel failures no send
\* was attempted.
C5_FailureOutsideLoopCloses ==
    (TaskEnded /\ bg_task = "False"
     /\ (sent = <<>> \/ sent[Len(sent)].message # "none"))
        => /\ closed
           /\ channel \in {"none", "voice"} => sent = <<>>

\* C6: a False outcome of the publish task makes send_updates return False
\* and the HTTP entry point "error"; True and "ok" only when every batch was
\* sent.
C6_FailurePropagates ==
    /\ (pc \in {"returned", "exit"} /\ bg_task = "False") => res = "False"
    /\ res = "True" => (bg_task = "True" /\ Len(embeds) = 0)
    /\ reply = "ok" => (bg_task = "True" /\ Len(embeds) = 0)

\* C7: with a cache path and ids that differ from the cache, the file holds
\* the new joined ids before the client is created, and keeps them whatever
\* the publish outcome.
C7_CacheWrittenBeforePublish ==
    (cache_path # None
     /\ (pc \in {"create_client", "run_client", "wait_until_ready", "send_loop",
                 "publish", "task_done"} \/ client # Unset))
        => /\ cacheFile = JoinIds(ctfs[1])
           /\ cacheFile # cache

\* C7 witness: the publish task failed after the cache had been overwritten;
\* the file holds the new ids, not the earlier, non-empty content.
C7_Witness ==
    /\ cache_path # None
    /\ pc = "exit"
    /\ bg_task = "False"
    /\ cache # <<>>
    /\ cacheFile = JoinIds(ctfs[1])
    /\ cacheFile # cache

\* C8: when the fetch fails or returns no event, send_updates returns False,
\* the cache file is not written and no chat client is created or connected.
C8_State ==
    (pc \in {"returned", "exit"} /\ (ctfs = None \/ ctfs = Some(<<>>)))
        => /\ res = "False"
           /\ client = Unset
           /\ sent = <<>>
           /\ bg_task = Unset
           /\ ~closed

C8_Step ==
    (pc # "get_ctfs" /\ (ctfs' = None \/ ctfs' = Some(<<>>)))
        => /\ cacheFile' = cacheFile
           /\ client' = Unset

C8_FetchFailureIsNoOp == []C8_State /\ [][C8_Step]_vars

\* C8 witness: the API answered with an empty list while the cache held ids.
C8_Witness ==
    /\ pc = "exit"
    /\ ctfs = Some(<<>>)
    /\ cache # <<>>
    /\ res = "False"

====
